---------------------------- MODULE Spec2Model ----------------------------
(***************************************************************************)
(* GoatMorpho: the morphometric engine (measurements/cv_processor.py,      *)
(* measurements/cv_processor_advanced.py) and the batch orchestrator       *)
(* (measurements/views.py), as state machines.                             *)
(*                                                                         *)
(* Numbers.  Pixel coordinates are integers.  A scale factor is the real   *)
(* number num / sqrt(den2), kept as the record [num, den2] with den2 > 0,  *)
(* so that ref * 0.2 / d with d = sqrt(d2) is [ref, 25 * d2] exactly.      *)
(* A measurement of the basic processor, round(px * scale, 2), is kept in  *)
(* hundredths (an integer).  Confidences are kept in thousandths.          *)
(***************************************************************************)
EXTENDS Integers, Sequences, FiniteSets, TLC

(***************************************************************************)
(* Arithmetic helpers                                                      *)
(***************************************************************************)
RECURSIVE Gcd(_, _)
Gcd(a, b) == IF b = 0 THEN a ELSE Gcd(b, a % b)

Abs(n) == IF n < 0 THEN 0 - n ELSE n

Sq(n) == n * n

RECURSIVE FloorSqrtIn(_, _, _)
FloorSqrtIn(n, lo, hi) ==
    IF lo >= hi THEN lo
    ELSE LET mid == (lo + hi + 1) \div 2
         IN IF mid * mid <= n THEN FloorSqrtIn(n, mid, hi)
                              ELSE FloorSqrtIn(n, lo, mid - 1)

\* math.sqrt, floored: the largest f with f * f <= n  (46340^2 < 2^31).
FloorSqrt(n) == FloorSqrtIn(n, 0, IF n < 46340 THEN n ELSE 46340)

\* The integer nearest to sqrt(N / D); an exact tie goes to the even
\* neighbour, as Python's round does on an exactly representable tie.
RoundSqrtFrac(N, D) ==
    LET f    == FloorSqrt(N \div D)
        rest == 4 * (N - (f * f + f) * D)
    IN  IF rest > D THEN f + 1
        ELSE IF rest < D THEN f
        ELSE IF f % 2 = 0 THEN f ELSE f + 1

(***************************************************************************)
(* cv_processor.py: the landmark catalog and the measurement catalog       *)
(***************************************************************************)
\* self.goat_keypoints: name -> index into the MediaPipe pose landmarks.
KeypointIndex ==
    [ nose |-> 0, left_eye |-> 2, right_eye |-> 5, left_ear |-> 7,
      right_ear |-> 8, left_shoulder |-> 11, right_shoulder |-> 12,
      left_elbow |-> 13, right_elbow |-> 14, left_wrist |-> 15,
      right_wrist |-> 16, left_hip |-> 23, right_hip |-> 24,
      left_knee |-> 25, right_knee |-> 26, left_ankle |-> 27,
      right_ankle |-> 28 ]

goat_keypoints == DOMAIN KeypointIndex

\* The measurements of _calculate_measurements, in the order of its ifs.
BasicOrder ==
    << "hauteur_au_garrot", "body_length", "longueur_tete", "largeur_tete",
       "largeur_poitrine", "largeur_hanche", "longueur_cou" >>

BasicCatalog == { BasicOrder[i] : i \in DOMAIN BasicOrder }

\* The two landmarks each if of _calculate_measurements tests for.
Required(m) ==
    CASE m = "hauteur_au_garrot" -> << "left_shoulder", "left_ankle" >>
      [] m = "body_length"       -> << "left_shoulder", "left_hip" >>
      [] m = "longueur_tete"     -> << "nose", "left_ear" >>
      [] m = "largeur_tete"      -> << "left_ear", "right_ear" >>
      [] m = "largeur_poitrine"  -> << "left_shoulder", "right_shoulder" >>
      [] m = "largeur_hanche"    -> << "left_hip", "right_hip" >>
      [] m = "longueur_cou"      -> << "left_shoulder", "nose" >>

RequiredSet(m) == { Required(m)[1], Required(m)[2] }

\* The squared pixel length a measurement takes: abs(dy) for the height,
\* the Euclidean distance otherwise.
PixelSq(m, kp) ==
    LET a == kp[Required(m)[1]]
        b == kp[Required(m)[2]]
    IN  IF m = "hauteur_au_garrot"
        THEN Sq(a.y - b.y)
        ELSE Sq(a.x - b.x) + Sq(a.y - b.y)

(***************************************************************************)
(* Scale factors                                                           *)
(***************************************************************************)
One == [num |-> 1, den2 |-> 1]

Half == [num |-> 1, den2 |-> 4]

Sign(n) == IF n < 0 THEN 0 - 1 ELSE IF n = 0 THEN 0 ELSE 1

\* num^2 / den2 in lowest terms.
Lowest(s) ==
    LET g == Gcd(Sq(s.num), s.den2)
    IN  << Sq(s.num) \div g, s.den2 \div g >>

\* Two scale records denote the same real number.
ScaleEq(s, t) ==
    /\ Sign(s.num) = Sign(t.num)
    /\ Lowest(s) = Lowest(t)

\* round(sqrt(m2) * scale, 2) in hundredths: the integer nearest to
\* sqrt(m2 * num^2 * 10000 / den2), with the sign of num.  The fraction is
\* reduced factor by factor to stay within 32-bit integers.
RoundScaled(m2, s) ==
    LET g1 == Gcd(10000, s.den2)
        a1 == 10000 \div g1
        d1 == s.den2 \div g1
        n2 == Sq(s.num)
        g2 == Gcd(n2, d1)
        a2 == n2 \div g2
        d2 == d1 \div g2
        g3 == Gcd(m2, d2)
        a3 == m2 \div g3
        d3 == d2 \div g3
    IN  Sign(s.num) * RoundSqrtFrac(a1 * a2 * a3, d3)

\* _calculate_scale_factor: the shoulders' pixel distance d stands for 20%
\* of the reference length; 1.0 when a shoulder is missing or d = 0.
calculate_scale_factor(keypoints, reference_length_cm) ==
    IF "left_shoulder" \in DOMAIN keypoints /\ "right_shoulder" \in DOMAIN keypoints
    THEN LET l  == keypoints["left_shoulder"]
             r  == keypoints["right_shoulder"]
             d2 == Sq(l.x - r.x) + Sq(l.y - r.y)
         IN  IF d2 > 0 THEN [num |-> reference_length_cm, den2 |-> 25 * d2]
                       ELSE One
    ELSE One

\* A reference length as the entry points receive it: absent (None) or a
\* number.  "if reference_length_cm" is false for None and for 0.
NoReference == [given |-> FALSE, v |-> 0]

Reference(n) == [given |-> TRUE, v |-> n]

Truthy(ref) == ref.given /\ ref.v # 0

\* process_image line 116 (and 373, 459): the calibrator is only called
\* for a truthy reference length.
ScaleFor(keypoints, ref) ==
    IF Truthy(ref) THEN calculate_scale_factor(keypoints, ref.v) ELSE One

(***************************************************************************)
(* _calculate_measurements                                                 *)
(***************************************************************************)
\* The calculator without the "in kp_dict" tests: the first KeyError leaves
\* the try block, and the measurements after it are never written.
calculate_measurements_unguarded(keypoints, scale_factor) ==
    LET missing == { i \in DOMAIN BasicOrder :
                       ~(RequiredSet(BasicOrder[i]) \subseteq DOMAIN keypoints) }
        stop    == IF missing = {} THEN Len(BasicOrder) + 1
                   ELSE CHOOSE i \in missing : \A j \in missing : i <= j
    IN  [ m \in { BasicOrder[i] : i \in 1 .. (stop - 1) }
            |-> RoundScaled(PixelSq(m, keypoints), scale_factor) ]

\* One if-block: the measurement is written only when both landmarks are
\* in kp_dict.
calculate_measurements(keypoints, scale_factor) ==
    [ m \in { c \in BasicCatalog : RequiredSet(c) \subseteq DOMAIN keypoints }
        |-> RoundScaled(PixelSq(m, keypoints), scale_factor) ]


(***************************************************************************)
(* cv_processor.py: outcomes of process_image / process_uploaded_image     *)
(***************************************************************************)
\* The error texts of the basic processor.
ErrTooLarge == "Image file too large (max 10MB)"

ErrDecode == "Could not decode uploaded image. Please check if the file is a valid image."

ErrLoad == "Could not load image from path"

ErrPoseRaised == "Error in pose detection: exception"

ErrRaised == "exception"

ErrFallbackRaised == "Detection failed: exception"

\* _fallback_face_detection lines 478-483: the text lists what to try
\* (lighting, profile view, contrast, posture, angle).
ErrNoFeatures == "Could not detect goat features in the image. Please try: well-lit, profile view, contrast, upright, different angle"

NoteEstimated == "Measurements estimated from face detection (lower accuracy)"

\* The failure dict every failing return of the basic processor builds.
BasicFailure(err) ==
    [ success          |-> FALSE,
      error            |-> err,
      measurements     |-> << >>,
      keypoints        |-> << >>,
      confidence_score |-> 0 ]

\* process_image lines 127-134.
BasicSuccess(measurements, keypoints, confidence_score, scale_factor) ==
    [ success          |-> TRUE,
      measurements     |-> measurements,
      keypoints        |-> keypoints,
      confidence_score |-> confidence_score,
      processed_image  |-> "annotated",
      scale_factor     |-> scale_factor ]

\* The estimated result returned through the ordinary success dict: full
\* confidence and no note.
EstimatedSuccessAsDetected(measurements, keypoints, scale_factor) ==
    BasicSuccess(measurements, keypoints, 1000, scale_factor)

\* _fallback_face_detection lines 465-473.
EstimatedSuccess(measurements, keypoints, scale_factor) ==
    [ success          |-> TRUE,
      measurements     |-> measurements,
      keypoints        |-> keypoints,
      confidence_score |-> 500,
      processed_image  |-> "annotated-estimated",
      scale_factor     |-> scale_factor,
      note             |-> NoteEstimated ]

RECURSIVE SumTo(_, _)
SumTo(q, n) == IF n = 0 THEN 0 ELSE q[n] + SumTo(q, n - 1)

SumSeq(q) == SumTo(q, Len(q))

\* n / d rounded to the nearest integer (n >= 0, d > 0), ties to even.
RoundDiv(n, d) ==
    LET f == n \div d
        r == 2 * (n % d)
    IN  IF r > d THEN f + 1
        ELSE IF r < d THEN f
        ELSE IF f % 2 = 0 THEN f ELSE f + 1

\* The confidence without the division by the number of landmarks.
calculate_confidence_total(visibility) == SumSeq(visibility)

\* _calculate_confidence: round(sum(visibility) / len(landmark), 3), in
\* thousandths, over all the landmarks the detector returned.
calculate_confidence(visibility) ==
    RoundDiv(SumSeq(visibility), Len(visibility))

\* _extract_keypoints: one entry per catalog name whose index the landmark
\* list holds; x and y in pixels (landmark.x * width is kept as the pixel
\* value), visibility of that landmark.
extract_keypoints(pose_landmarks) ==
    [ n \in { k \in goat_keypoints :
                 KeypointIndex[k] < Len(pose_landmarks.visibility) } |->
        [ x          |-> pose_landmarks.points[n].x,
          y          |-> pose_landmarks.points[n].y,
          visibility |-> pose_landmarks.visibility[KeypointIndex[n] + 1] ] ]

Min(a, b) == IF a < b THEN a ELSE b

Max(a, b) == IF a > b THEN a ELSE b

\* _estimate_goat_keypoints: thirteen points placed from the face box by
\* fixed proportions, clamped into the image, visibility and confidence 0.5.
\* body_height * 0.75 is exact for the face heights enumerated (multiples
\* of 4).
estimate_goat_keypoints(face_x, face_y, face_w, face_h, img_w, img_h) ==
    LET body_height == face_h * 3
        estimates ==
          [ nose           |-> << face_x, face_y >>,
            left_eye       |-> << face_x - face_w \div 4, face_y - face_h \div 4 >>,
            right_eye      |-> << face_x + face_w \div 4, face_y - face_h \div 4 >>,
            left_ear       |-> << face_x - face_w \div 3, face_y - face_h \div 2 >>,
            right_ear      |-> << face_x + face_w \div 3, face_y - face_h \div 2 >>,
            left_shoulder  |-> << face_x - face_w \div 2, face_y + face_h >>,
            right_shoulder |-> << face_x + face_w \div 2, face_y + face_h >>,
            left_hip       |-> << face_x - face_w \div 2, face_y + body_height \div 2 >>,
            right_hip      |-> << face_x + face_w \div 2, face_y + body_height \div 2 >>,
            left_knee      |-> << face_x - face_w \div 2, face_y + (body_height * 3) \div 4 >>,
            right_knee     |-> << face_x + face_w \div 2, face_y + (body_height * 3) \div 4 >>,
            left_ankle     |-> << face_x - face_w \div 2, face_y + body_height >>,
            right_ankle    |-> << face_x + face_w \div 2, face_y + body_height >> ]
    IN  [ n \in DOMAIN estimates |->
            [ x          |-> Max(0, Min(estimates[n][1], img_w - 1)),
              y          |-> Max(0, Min(estimates[n][2], img_h - 1)),
              visibility |-> 500,
              confidence |-> 500 ] ]

\* The tail of process_image once pose landmarks are found (lines 112-134).
MeasureDetected(pose_landmarks, ref) ==
    LET keypoints    == extract_keypoints(pose_landmarks)
        scale_factor == ScaleFor(keypoints, ref)
        measurements == calculate_measurements(keypoints, scale_factor)
    IN  BasicSuccess(measurements, keypoints,
                     calculate_confidence(pose_landmarks.visibility), scale_factor)

\* _fallback_face_detection once a face is detected (lines 440-473).
MeasureEstimated(face, img_w, img_h, ref) ==
    LET estimated_keypoints ==
            estimate_goat_keypoints(face.cx, face.cy, face.w, face.h, img_w, img_h)
        scale_factor == ScaleFor(estimated_keypoints, ref)
        measurements == calculate_measurements(estimated_keypoints, scale_factor)
    IN  EstimatedSuccess(measurements, estimated_keypoints, scale_factor)

(***************************************************************************)
(* cv_processor_advanced.py                                                *)
(***************************************************************************)
\* An optional value: None is the empty tuple, a value v is << v >>.
None == << >>

Some(v) == << v >>

\* _get_measurement_functions with the constant each _calculate_* returns
\* per unit of scale (lines 545-604).
measurement_functions ==
    [ hauteur_au_garrot    |-> 65, hauteur_au_dos     |-> 62,
      hauteur_au_sternum   |-> 35, hauteur_au_sacrum  |-> 66,
      body_length          |-> 85, tour_de_poitrine   |-> 95,
      perimetre_thoracique |-> 92, largeur_poitrine   |-> 25,
      largeur_hanche       |-> 23, largeur_tete       |-> 15,
      longueur_tete        |-> 22, longueur_oreille   |-> 12,
      longueur_cou         |-> 18, tour_du_cou        |-> 45,
      longueur_queue       |-> 25 ]

AdvancedCatalog == DOMAIN measurement_functions

\* for _ in range(50)
BootstrapSamples == 50

\* Lines 304-308: reference_length / 100 when a reference is given, else
\* max(h, w) / 2000; the landmarks are not read.
advanced_scale_factor(ref, img_h, img_w) ==
    IF Truthy(ref) THEN [num |-> ref.v, den2 |-> 100 * 100]
                   ELSE [num |-> Max(img_h, img_w), den2 |-> 2000 * 2000]

\* The divisors of lines 305 and 308: den2 of an advanced scale factor is
\* the square of one of them.
ScaleDivisors == { 100, 2000 }

\* A _calculate_* placeholder: const * scale in hundredths, whatever the
\* points (the image sizes and references enumerated make the quotient
\* exact).
PlaceholderValue(const, points, s) ==
    (const * 100 * s.num) \div (CHOOSE d \in ScaleDivisors : d * d = s.den2)

Mean(q) == SumSeq(q) \div Len(q)

\* A spread taken about 0 instead of about the mean: the root of the mean
\* square of the values.
StdAboutZero(q) ==
    FloorSqrt(SumSeq([ i \in DOMAIN q |-> Sq(q[i]) ]) \div Len(q))

\* np.std: the root of the mean squared deviation from the mean.
Std(q) ==
    LET mu == Mean(q)
    IN  FloorSqrt(SumSeq([ i \in DOMAIN q |-> Sq(q[i] - mu) ]) \div Len(q))

\* _extract_anatomical_points returns {} for every landmark set, so
\* _add_landmark_noise has no point to perturb and returns {}.
extract_anatomical_points(landmarks, w, h) == << >>

add_landmark_noise(points, noise) ==
    [ n \in DOMAIN points |-> << points[n][1] + noise, points[n][2] + noise >> ]

\* The bootstrap loop with a measurement function that follows the noisy
\* points: the drawn offset shows in every trial's value.
BootstrapValuesFollowingNoise(const, s, key_points, noise) ==
    LET value == PlaceholderValue(const, key_points, s) + 100 * noise
    IN  IF value > 0 THEN [ i \in 1 .. BootstrapSamples |-> value ] ELSE << >>

\* The bootstrap loop of one measurement (lines 319-332): the values > 0
\* of the 50 trials.  noise is the offset np.random.normal draws; one draw
\* stands for the draws of a call.
BootstrapValues(const, s, key_points, noise) ==
    LET noisy_points == add_landmark_noise(key_points, noise)
        value        == PlaceholderValue(const, noisy_points, s)
    IN  IF value > 0 THEN [ i \in 1 .. BootstrapSamples |-> value ] ELSE << >>

\* _apply_breed_corrections: the measurements unchanged with confidence
\* 0.8, only for a breed that has a model.
apply_breed_corrections(measurements, breed, breed_models) ==
    IF breed \in breed_models THEN << measurements, 800 >>
                              ELSE << measurements, 0 >>

\* The summary of a processor that cannot do without a correction model:
\* for a breed that has none, no measurement is reported.
SummarizeTrialsNeedingModel(trials, scale_factor, breed, breed_models) ==
    LET measurements ==
            [ m \in DOMAIN trials |->
                IF trials[m] # << >> THEN Some(Mean(trials[m])) ELSE None ]
        uncertainties ==
            [ m \in DOMAIN trials |->
                IF trials[m] # << >> THEN Some(Std(trials[m])) ELSE None ]
        corrected ==
            IF breed = ""
            THEN << measurements, 0 >>
            ELSE IF breed \in breed_models
            THEN apply_breed_corrections(measurements, breed, breed_models)
            ELSE << [ m \in DOMAIN trials |-> None ], 0 >>
    IN  [ values           |-> corrected[1],
          uncertainties    |-> uncertainties,
          breed_confidence |-> corrected[2],
          scale_factor     |-> scale_factor ]

\* The summary with a spread of 0 reported as no uncertainty at all.
SummarizeTrialsNullingZeroSpread(trials, scale_factor, breed, breed_models) ==
    LET measurements ==
            [ m \in DOMAIN trials |->
                IF trials[m] # << >> THEN Some(Mean(trials[m])) ELSE None ]
        uncertainties ==
            [ m \in DOMAIN trials |->
                IF trials[m] # << >> /\ Std(trials[m]) # 0
                THEN Some(Std(trials[m])) ELSE None ]
        corrected ==
            IF breed # "" /\ breed \in breed_models
            THEN apply_breed_corrections(measurements, breed, breed_models)
            ELSE << measurements, 0 >>
    IN  [ values           |-> corrected[1],
          uncertainties    |-> uncertainties,
          breed_confidence |-> corrected[2],
          scale_factor     |-> scale_factor ]

\* Lines 333-345: the mean and the standard deviation of each measurement's
\* trials (None when no trial gave a value > 0), then the breed correction.
SummarizeTrials(trials, scale_factor, breed, breed_models) ==
    LET measurements ==
            [ m \in DOMAIN trials |->
                IF trials[m] # << >> THEN Some(Mean(trials[m])) ELSE None ]
        uncertainties ==
            [ m \in DOMAIN trials |->
                IF trials[m] # << >> THEN Some(Std(trials[m])) ELSE None ]
        corrected ==
            IF breed # "" /\ breed \in breed_models
            THEN apply_breed_corrections(measurements, breed, breed_models)
            ELSE << measurements, 0 >>
    IN  [ values           |-> corrected[1],
          uncertainties    |-> uncertainties,
          breed_confidence |-> corrected[2],
          scale_factor     |-> scale_factor ]

\* _extract_measurements_with_uncertainty.
extract_measurements_with_uncertainty(landmarks, ref, breed, breed_models, img_h, img_w, noise) ==
    LET scale_factor == advanced_scale_factor(ref, img_h, img_w)
        key_points   == extract_anatomical_points(landmarks, img_w, img_h)
    IN  SummarizeTrials(
            [ m \in AdvancedCatalog |->
                BootstrapValues(measurement_functions[m], scale_factor,
                                key_points, noise) ],
            scale_factor, breed, breed_models)

\* values.get(name): truthy when present, not None and not 0.
Got(values, m) == m \in DOMAIN values /\ values[m] # None /\ values[m][1] # 0

NonNull(values) == { m \in DOMAIN values : values[m] # None }

\* self.anomaly_detector.fit_predict is reached when more than 5 values
\* are non-null.
FitsDetector(values) == Cardinality(NonNull(values)) > 5

\* _validate_measurements: the warnings, in the order the code appends
\* them.  outlier is what fit_predict answered: "inlier", "outlier" or
\* "raise" (logged, no warning).
validate_measurements(values, breed, outlier) ==
    LET w1 == IF Got(values, "hauteur_au_garrot") /\ Got(values, "body_length")
                 /\ ( 10 * values["body_length"][1] < 8 * values["hauteur_au_garrot"][1]
                      \/ values["body_length"][1] > 2 * values["hauteur_au_garrot"][1] )
              THEN << "Body length to height ratio seems unusual" >> ELSE << >>
        w2 == IF Got(values, "largeur_poitrine") /\ Got(values, "largeur_hanche")
                 /\ 2 * values["largeur_hanche"][1] > 3 * values["largeur_poitrine"][1]
              THEN << "Hip width seems disproportionately large compared to chest" >>
              ELSE << >>
        w3 == IF breed \in { "boer", "nubian", "alpine" } /\ Got(values, "hauteur_au_garrot")
              THEN IF breed = "boer" /\ values["hauteur_au_garrot"][1] > 8000
                   THEN << "Height seems large for Boer breed" >>
                   ELSE IF breed = "nubian" /\ values["hauteur_au_garrot"][1] < 6000
                        THEN << "Height seems small for Nubian breed" >>
                        ELSE << >>
              ELSE << >>
        w4 == IF FitsDetector(values) /\ outlier = "outlier"
              THEN << "Some measurements detected as statistical outliers" >>
              ELSE << >>
        warnings == w1 \o w2 \o w3 \o w4
    IN  [ is_valid          |-> Len(warnings) = 0,
          warnings          |-> warnings,
          consistency_score |-> Max(0, 1000 - Len(warnings) * 200) ]

\* _calculate_ensemble_agreement: 0.8 for more than one result, else 0.6.
calculate_ensemble_agreement(results) == IF Len(results) > 1 THEN 800 ELSE 600

\* self.confidence_weights, in hundredths.
confidence_weights ==
    [ pose_detection         |-> 30,
      landmark_quality       |-> 25,
      image_quality          |-> 20,
      anatomical_consistency |-> 15,
      ensemble_agreement     |-> 10 ]

\* The five factors _calculate_confidence_score weighs (lines 426-440), in
\* thousandths, each with the expression the code reads it from: pose_conf
\* and ensemble_conf both read detection_results['agreement_score'].
confidence_signals(agreement_score, values, quality_score, consistency_score) ==
    LET total      == Cardinality(DOMAIN values)
        successful == Cardinality(NonNull(values))
    IN  [ pose_detection         |->
              [ source |-> "detection_results.agreement_score",
                v      |-> agreement_score ],
          landmark_quality       |->
              [ source |-> "measurements.values",
                v      |-> IF total > 0 THEN (1000 * successful) \div total ELSE 0 ],
          image_quality          |->
              [ source |-> "quality_score", v |-> quality_score ],
          anatomical_consistency |->
              [ source |-> "validation_result.consistency_score",
                v      |-> consistency_score ],
          ensemble_agreement     |->
              [ source |-> "detection_results.agreement_score",
                v      |-> agreement_score ] ]

\* The weighted sum of five factors, clamped to [0, 1].
WeightedConfidence(signals) ==
    LET overall ==
            ( signals.pose_detection.v * confidence_weights.pose_detection
              + signals.landmark_quality.v * confidence_weights.landmark_quality
              + signals.image_quality.v * confidence_weights.image_quality
              + signals.anatomical_consistency.v * confidence_weights.anatomical_consistency
              + signals.ensemble_agreement.v * confidence_weights.ensemble_agreement )
            \div 100
    IN  Max(0, Min(1000, overall))

\* _calculate_confidence_score, in thousandths.
calculate_confidence_score(agreement_score, values, quality_score, consistency_score) ==
    WeightedConfidence(confidence_signals(agreement_score, values, quality_score,
                                          consistency_score))

\* The error texts of the advanced processor.
ErrPreprocess == "Image preprocessing failed"

ErrQuality == "Image quality too low for accurate measurements"

ErrNoLandmarks == "No landmarks detected by any model"

ErrEnsembleRaised == "Detection failed: exception"

\* The results list of _ensemble_detection: the names of the models that
\* returned something, in call order.
EnsembleResults(det) ==
    (IF det.high = "found" THEN << "pose_high" >> ELSE << >>)
    \o (IF det.broad = "found" THEN << "pose_broad" >> ELSE << >>)
    \o (IF det.face = "found" THEN << "face" >> ELSE << >>)
    \o (IF det.seg = "found" THEN << "segmentation" >> ELSE << >>)

\* _combine_detections: the landmarks of the first pose result, else None.
combine_detections(results) ==
    IF \E i \in DOMAIN results : results[i] \in { "pose_high", "pose_broad" }
    THEN Some(results[CHOOSE i \in DOMAIN results :
                        /\ results[i] \in { "pose_high", "pose_broad" }
                        /\ \A j \in 1 .. (i - 1) :
                               results[j] \notin { "pose_high", "pose_broad" }])
    ELSE None

\* _landmarks_to_keypoints returns [] for every landmark set.
landmarks_to_keypoints(landmarks) == << >>

\* _ensemble_detection: a raise of any of the four models is caught by the
\* one try around them.
ensemble_detection(det) ==
    LET results == EnsembleResults(det)
    IN  IF "raise" \in { det.high, det.broad, det.face, det.seg }
        THEN [ success |-> FALSE, error |-> ErrEnsembleRaised ]
        ELSE IF results = << >>
        THEN [ success |-> FALSE, error |-> ErrNoLandmarks ]
        ELSE [ success         |-> TRUE,
               landmarks       |-> combine_detections(results),
               keypoints       |-> landmarks_to_keypoints(combine_detections(results)),
               models_used     |-> results,
               agreement_score |-> calculate_ensemble_agreement(results) ]

\* The success dict of process_goat_image_advanced (lines 145-160).
AdvancedSuccess(detection_results, measurements, validation_result, overall_confidence, quality_score, ref) ==
    [ success                   |-> TRUE,
      measurements              |-> measurements.values,
      confidence_score          |-> overall_confidence,
      measurement_uncertainties |-> measurements.uncertainties,
      quality_score             |-> quality_score,
      breed_confidence          |-> measurements.breed_confidence,
      keypoints                 |-> detection_results.keypoints,
      processed_image           |-> "annotated",
      validation_warnings       |-> validation_result.warnings,
      processing_metadata       |->
          [ models_used        |-> detection_results.models_used,
            ensemble_agreement |-> detection_results.agreement_score,
            reference_scaling  |-> ref.given ] ]

\* The tail with a validator that decides: measurements that are not valid
\* fail the outcome.
AdvancedAfterExtractionRejecting(detection_results, measurements, quality_score, ref, breed, outlier) ==
    LET validation_result == validate_measurements(measurements.values, breed, outlier)
    IN  IF validation_result.is_valid
        THEN AdvancedSuccess(detection_results, measurements, validation_result,
                 calculate_confidence_score(detection_results.agreement_score,
                                            measurements.values, quality_score,
                                            validation_result.consistency_score),
                 quality_score, ref)
        ELSE [ success |-> FALSE, error |-> "Validation failed" ]

\* Lines 134-160: validation, confidence and the success dict.
AdvancedAfterExtraction(detection_results, measurements, quality_score, ref, breed, outlier) ==
    LET validation_result == validate_measurements(measurements.values, breed, outlier)
    IN  AdvancedSuccess(detection_results, measurements, validation_result,
            calculate_confidence_score(detection_results.agreement_score,
                                       measurements.values, quality_score,
                                       validation_result.consistency_score),
            quality_score, ref)

\* Lines 129-132 and on: the extraction on the ensemble's landmarks.
AdvancedAfterDetection(detection_results, quality_score, ref, breed, breed_models, img, noise, outlier) ==
    IF ~detection_results.success
    THEN detection_results
    ELSE AdvancedAfterExtraction(
             detection_results,
             extract_measurements_with_uncertainty(
                 detection_results.landmarks, ref, breed, breed_models,
                 img.h, img.w, noise),
             quality_score, ref, breed, outlier)

\* process_goat_image_advanced from the ensemble on (lines 124-160).
AdvancedAfterQuality(det, quality_score, ref, breed, breed_models, img, noise, outlier) ==
    AdvancedAfterDetection(ensemble_detection(det), quality_score, ref, breed,
                           breed_models, img, noise, outlier)

(***************************************************************************)
(* Enumerated inputs                                                       *)
(***************************************************************************)
\* The landmarks the basic measurement catalog reads, and one it does not.
MeasuredNames ==
    { "nose", "left_ear", "right_ear", "left_shoulder", "right_shoulder",
      "left_hip", "right_hip", "left_ankle" }

Pt(px, py) == [x |-> px, y |-> py]

LeftShoulderPts == { Pt(100, 200), Pt(130, 240) }

RightShoulderPts == { Pt(100, 200), Pt(150, 200), Pt(300, 200) }

\* A full landmark layout: the shoulders vary, the rest is a side view.
Layout(ls, rs) ==
    [ n \in goat_keypoints |->
        CASE n = "left_shoulder"  -> ls
          [] n = "right_shoulder" -> rs
          [] n = "nose"           -> Pt(40, 150)
          [] n = "left_eye"       -> Pt(50, 140)
          [] n = "right_eye"      -> Pt(50, 145)
          [] n = "left_ear"       -> Pt(70, 120)
          [] n = "right_ear"      -> Pt(70, 132)
          [] n = "left_hip"       -> Pt(260, 210)
          [] n = "right_hip"      -> Pt(260, 250)
          [] n = "left_ankle"     -> Pt(110, 330)
          [] n = "right_ankle"    -> Pt(115, 335)
          [] OTHER                -> Pt(180, 280) ]

Restrict(f, S) == [ n \in (DOMAIN f) \cap S |-> f[n] ]

\* Reference lengths as callers pass them: none, zero, positive, negative.
ReferenceValues == { 0, 100, 200, 0 - 100 }

References == { NoReference } \cup { Reference(n) : n \in ReferenceValues }

\* Calls of the calculator on one input that a run follows.
MaxCalls == 2

\* What a detector call answers: landmarks or detections, nothing, or an
\* exception.
DetectorAnswers == { "found", "none", "raise" }

\* Landmark visibilities of a detected pose, in thousandths, by profile.
VisibilityProfiles ==
    { [ i \in 1 .. 33 |-> 1000 ],
      [ i \in 1 .. 33 |-> 0 ],
      [ i \in 1 .. 33 |-> IF i % 2 = 0 THEN 900 ELSE 335 ] }

\* The pose landmarks a successful detection returns.
PoseLandmarks ==
    { [ points |-> Layout(ls, rs), visibility |-> v ] :
        ls \in LeftShoulderPts, rs \in { Pt(100, 200), Pt(150, 200) },
        v \in VisibilityProfiles }

\* The first detection of the face detector, as the pixel box
\* _fallback_face_detection derives from it.
FaceBoxes ==
    { [ cx |-> 320, cy |-> 100, w |-> 80, h |-> 60 ],
      [ cx |-> 10, cy |-> 470, w |-> 120, h |-> 40 ],
      [ cx |-> 200, cy |-> 200, w |-> 1, h |-> 0 ] }

ImageSizes == { [ w |-> 640, h |-> 480 ] }

\* Quality scores of _assess_image_quality, in thousandths.
Qualities == { 0, 299, 300, 1000 }

\* A breed label ("" stands for None) and the breeds with a model file.
Breeds == { "", "boer", "nubian" }

BreedModelSets == { {}, { "boer" } }

\* Offsets the landmark noise takes (np.random.normal(0, 2)): below 0, none
\* at all, above 0.
Noises == { 0 - 2, 0, 3 }

\* The uploaded file: decodable and within 10 MB, decodable but larger, or
\* not an image.
Files == { "ok", "oversize", "undecodable" }

\* What the four models of the ensemble answer on one image.
Answers(h, b, f, g) == [ high |-> h, broad |-> b, face |-> f, seg |-> g ]

EnsembleAnswers ==
    { Answers("none", "none", "none", "none"),
      Answers("found", "none", "none", "none"),
      Answers("none", "found", "none", "none"),
      Answers("none", "none", "found", "none"),
      Answers("none", "none", "none", "found"),
      Answers("found", "found", "none", "found"),
      Answers("found", "found", "found", "found"),
      Answers("found", "raise", "none", "none"),
      Answers("raise", "none", "none", "none"),
      Answers("none", "none", "raise", "found") }

\* What fit_predict answers for the one vector it is fitted on.
OutlierAnswers == { "inlier", "outlier", "raise" }

\* Invocations of one processor instance that a run follows.
MaxInvocations == 2

(***************************************************************************)
(* State                                                                   *)
(***************************************************************************)
VARIABLES
    \* the calibrator and the calculators on enumerated inputs
    calc_keypoints,     \* the keypoints handed to calibrator and calculator
    calc_reference,     \* the reference length handed to the calibrator
    calc_scale,         \* the scale factor handed to the calculator
    calc_calibrated,    \* "no", or the processor whose calibration set calc_scale
    calc_which,         \* the processor class under study: "basic" or "advanced"
    calc_result,        \* what the last calculator call returned
    calc_previous,      \* what the call before it returned
    calc_outcome,       \* the success dict built around the last basic result
    calc_calls,         \* calculator calls made so far
    calc_noise,         \* the offset the last advanced call drew as noise
    \* one processor instance
    entry,              \* the entry point of the running invocation, or "none"
    state,              \* the fallback chain's state, "Idle" between invocations
    reference,          \* reference_length_cm of the invocation
    breed,              \* breed of the invocation ("" for None)
    breed_models,       \* self.breed_models: the breeds with a loaded model
    file,               \* the input file: "ok", "oversize" or "undecodable"
    image,              \* the decoded image's size
    quality_score,      \* what _assess_image_quality returned
    pose_calls,         \* pose model calls of the invocation
    enhance_calls,      \* _enhance_image_for_detection calls of the invocation
    face_calls,         \* face model calls of the invocation
    first_pose,         \* the pose model's answer on the original image
    retry_pose,         \* its answer on the enhanced image
    face_result,        \* the face model's answer
    ensemble,           \* the four answers inside _ensemble_detection
    fit_answer,         \* what anomaly_detector.fit_predict answers when reached
    outcome,            \* the dict the last invocation returned
    anomaly_fits,       \* fits of self.anomaly_detector since construction
    invocations,        \* invocations started on the instance
    \* one batch session (MeasurementSession and its BatchImageUpload rows)
    total_images,       \* session.total_images
    goat_breed,         \* session.goat.breed
    image_kind,         \* what each uploaded file is
    session_status,     \* session.status
    processed_images,   \* session.processed_images
    failed_images,      \* session.failed_images
    image_status,       \* batch_image.status of each image
    image_measurement,  \* batch_image.measurement: a record, or None
    records,            \* MorphometricMeasurement rows created from each image
    form_data,          \* use_advanced_ai and reference_length_cm of the run
    phase,              \* "queued", "running" or "done": process_batch_images
    cursor,             \* position of the loop over batch_images
    processed_count,    \* the loop's processed_count
    failed_count,       \* the loop's failed_count
    detector_inits,     \* constructions of a processor (its detector models)
    engine_runs,        \* engine invocations made for each image
    retries,            \* retry_failed_images requests served
    status_at_retry,    \* each image's status when the last retry came in
    rerun,              \* images the engine was run on since the last retry
    \* the worker-queue service (SingleInstanceCVProcessor and its endpoint)
    content_type,       \* what each upload says it is: "image" or "other"
    request_pc,         \* where the /process request of each upload stands
    tmp_file,           \* the temp file of each upload: "none", "present", "deleted"
    processing_queue,   \* self.processing_queue: the task ids waiting
    results_store,      \* self.results_store: task id -> status
    worker_task,        \* the task each worker thread holds, or None
    worker_outcome,     \* the status a worker is about to store, or "unset"
    file_at_start,      \* what a worker found of the temp file when it read it
    recorded            \* tasks for which a worker stored completed or failed

calcVars ==
    << calc_keypoints, calc_reference, calc_scale, calc_calibrated, calc_which,
       calc_result, calc_previous, calc_outcome, calc_calls, calc_noise >>

inputVars == << reference, breed, file, image >>

answerVars == << first_pose, retry_pose, face_result, ensemble, fit_answer >>

callVars == << pose_calls, enhance_calls, face_calls >>

engineVars ==
    << entry, state, inputVars, breed_models, quality_score, callVars,
       answerVars, outcome, anomaly_fits, invocations >>

sessionVars ==
    << total_images, goat_breed, image_kind, session_status, processed_images, failed_images,
       image_status, image_measurement, records >>

loopVars == << form_data, phase, cursor, processed_count, failed_count >>

historyVars == << detector_inits, engine_runs, retries, status_at_retry, rerun >>

batchVars == << sessionVars, loopVars, historyVars >>

serviceVars == << content_type, request_pc, tmp_file, processing_queue, results_store >>

workerVars == << worker_task, worker_outcome, file_at_start, recorded >>

queueVars == << serviceVars, workerVars >>

vars == << calcVars, engineVars, batchVars, queueVars >>

\* What an action of one part leaves alone.
outsideCalc == << engineVars, batchVars, queueVars >>

outsideEngine == << calcVars, batchVars, queueVars >>

outsideBatch == << calcVars, engineVars, queueVars >>

outsideQueue == << calcVars, engineVars, batchVars >>

NoAnswers == [ high |-> "unset", broad |-> "unset", face |-> "unset", seg |-> "unset" ]

\* No calculator run under way.
CalcIdle ==
    /\ calc_keypoints = << >>
    /\ calc_reference = NoReference
    /\ calc_scale = One
    /\ calc_calibrated = "no"
    /\ calc_which = "basic"
    /\ calc_result = << >>
    /\ calc_previous = << >>
    /\ calc_outcome = << >>
    /\ calc_calls = 0
    /\ calc_noise = 0

\* A processor right after __init__: detectors loaded, nothing processed.
EngineConstructed ==
    /\ entry = "none"
    /\ state = "Idle"
    /\ reference = NoReference
    /\ breed = ""
    /\ file = "ok"
    /\ image \in ImageSizes
    /\ quality_score = 0
    /\ pose_calls = 0
    /\ enhance_calls = 0
    /\ face_calls = 0
    /\ first_pose = "unset"
    /\ retry_pose = "unset"
    /\ face_result = "unset"
    /\ ensemble = NoAnswers
    /\ fit_answer = "unset"
    /\ outcome = << >>
    /\ anomaly_fits = 0
    /\ invocations = 0

\* No batch session uploaded.
BatchIdle ==
    /\ total_images = 0
    /\ goat_breed = ""
    /\ image_kind = << >>
    /\ session_status = "PENDING"
    /\ processed_images = 0
    /\ failed_images = 0
    /\ image_status = << >>
    /\ image_measurement = << >>
    /\ records = << >>
    /\ form_data = [ use_advanced_ai |-> TRUE, reference_length_cm |-> NoReference ]
    /\ phase = "done"
    /\ cursor = 0
    /\ processed_count = 0
    /\ failed_count = 0
    /\ detector_inits = 0
    /\ engine_runs = << >>
    /\ retries = 0
    /\ status_at_retry = << >>
    /\ rerun = {}

\* The service not started: no worker thread, no upload.
QueueIdle ==
    /\ content_type = << >>
    /\ request_pc = << >>
    /\ tmp_file = << >>
    /\ processing_queue = << >>
    /\ results_store = << >>
    /\ worker_task = << >>
    /\ worker_outcome = << >>
    /\ file_at_start = << >>
    /\ recorded = {}

(***************************************************************************)
(* The calibrators and the calculators on enumerated inputs                *)
(***************************************************************************)
AnchorNames == { "left_shoulder", "right_shoulder" }

\* The basic calculator reads keypoints; the advanced one is handed the
\* combined landmarks, so its runs vary the anchors only.
InitCalc ==
    /\ calc_which \in { "basic", "advanced" }
    /\ \E ls \in LeftShoulderPts, rs \in RightShoulderPts,
          present \in SUBSET MeasuredNames :
          /\ calc_which = "advanced" => present \subseteq AnchorNames
          /\ calc_keypoints = Restrict(Layout(ls, rs), present)
    /\ calc_reference \in References
    /\ calc_scale \in { One, Half }
    /\ calc_calibrated = "no"
    /\ calc_result = << >>
    /\ calc_previous = << >>
    /\ calc_outcome = << >>
    /\ calc_calls = 0
    /\ calc_noise = 0
    /\ EngineConstructed
    /\ breed_models \in BreedModelSets
    /\ BatchIdle
    /\ QueueIdle

\* cv_processor.py: scale_factor = self._calculate_scale_factor(keypoints,
\* reference_length_cm) if reference_length_cm else 1.0
Calibrate ==
    /\ calc_which = "basic"
    /\ calc_calls = 0
    /\ calc_calibrated = "no"
    /\ calc_scale' = ScaleFor(calc_keypoints, calc_reference)
    /\ calc_calibrated' = "basic"
    /\ UNCHANGED << calc_keypoints, calc_reference, calc_which, calc_result,
                    calc_previous, calc_outcome, calc_calls, calc_noise >>
    /\ UNCHANGED outsideCalc

\* cv_processor_advanced.py lines 303-308.
CalibrateAdvanced ==
    /\ calc_which = "advanced"
    /\ calc_calls = 0
    /\ calc_calibrated = "no"
    /\ calc_scale' = advanced_scale_factor(calc_reference, image.h, image.w)
    /\ calc_calibrated' = "advanced"
    /\ UNCHANGED << calc_keypoints, calc_reference, calc_which, calc_result,
                    calc_previous, calc_outcome, calc_calls, calc_noise >>
    /\ UNCHANGED outsideCalc

\* measurements = self._calculate_measurements(keypoints, scale_factor) and
\* the success dict around it: a fresh dict is built and returned; neither
\* argument and no field of the processor is written.
Compute ==
    /\ calc_calls < MaxCalls
    /\ calc_which = "basic"
    /\ calc_result' = calculate_measurements(calc_keypoints, calc_scale)
    /\ calc_previous' = calc_result
    /\ calc_outcome' = BasicSuccess(calc_result', calc_keypoints, 1000, calc_scale)
    /\ calc_calls' = calc_calls + 1
    /\ UNCHANGED << calc_keypoints, calc_reference, calc_scale, calc_calibrated,
                    calc_which, calc_noise >>
    /\ UNCHANGED outsideCalc

\* _extract_measurements_with_uncertainty on the same landmarks and
\* reference: every call draws its own noise.
Extract ==
    /\ calc_calls < MaxCalls
    /\ calc_which = "advanced"
    /\ \E noise \in Noises :
          /\ calc_noise' = noise
          /\ calc_result' =
                 extract_measurements_with_uncertainty(
                     Some("pose_high"), calc_reference, breed, breed_models,
                     image.h, image.w, noise)
    /\ calc_previous' = calc_result
    /\ calc_calls' = calc_calls + 1
    /\ UNCHANGED << calc_keypoints, calc_reference, calc_scale, calc_calibrated,
                    calc_which, calc_outcome >>
    /\ UNCHANGED outsideCalc

NextCalc == Calibrate \/ CalibrateAdvanced \/ Compute \/ Extract

SpecCalc == InitCalc /\ [][NextCalc]_vars

(***************************************************************************)
(* One processor instance: the fallback chain of the basic processor and   *)
(* the ensemble of the advanced one                                        *)
(***************************************************************************)
BasicEntries == { "process_image", "process_uploaded_image" }

Terminal == { "Succeeded", "Estimated", "Failed" }

InitEngine ==
    /\ CalcIdle
    /\ EngineConstructed
    /\ breed_models \in BreedModelSets
    /\ BatchIdle
    /\ QueueIdle

\* process_image lines 82-87 and process_uploaded_image lines 279-322: the
\* size check (uploads only), then the decode.  What the detectors answer on
\* the image is fixed with the image.
Begin ==
    /\ state = "Idle"
    /\ invocations < MaxInvocations
    /\ invocations' = invocations + 1
    /\ entry' \in BasicEntries
    /\ reference' \in References
    /\ file' \in Files
    /\ first_pose' \in DetectorAnswers
    /\ retry_pose' \in DetectorAnswers
    /\ face_result' \in DetectorAnswers
    /\ ensemble' = NoAnswers
    /\ fit_answer' = "unset"
    /\ pose_calls' = 0
    /\ enhance_calls' = 0
    /\ face_calls' = 0
    /\ IF entry' = "process_uploaded_image" /\ file' = "oversize"
       THEN state' = "Failed" /\ outcome' = BasicFailure(ErrTooLarge)
       ELSE IF file' = "undecodable"
       THEN /\ state' = "Failed"
            /\ outcome' = BasicFailure(IF entry' = "process_image"
                                       THEN ErrLoad ELSE ErrDecode)
       ELSE state' = "Initial" /\ outcome' = << >>
    /\ UNCHANGED << breed, image, breed_models, quality_score, anomaly_fits >>
    /\ UNCHANGED outsideEngine

\* A raise of self.pose.process that no handler catches: the caller gets
\* the exception and no dict.
PoseRaisedToCaller == [ raised |-> "exception" ]

\* What a raise of self.pose.process turns into: process_image has one
\* outer handler, process_uploaded_image one around the detection.
PoseRaised ==
    BasicFailure(IF entry = "process_image" THEN ErrRaised ELSE ErrPoseRaised)

\* The first detection of a chain without fallback 1: when the pose model
\* finds nothing the face fallback comes next.
PrimaryDetectSkippingRetry ==
    /\ state = "Initial"
    /\ pose_calls' = pose_calls + 1
    /\ CASE first_pose = "found" ->
              /\ state' = "Succeeded"
              /\ \E pl \in PoseLandmarks : outcome' = MeasureDetected(pl, reference)
         [] first_pose = "none" ->
              /\ state' = "FallbackDetection"
              /\ outcome' = outcome
         [] first_pose = "raise" ->
              /\ state' = "Failed"
              /\ outcome' = PoseRaised
    /\ UNCHANGED << entry, inputVars, breed_models, quality_score, enhance_calls,
                    face_calls, answerVars, anomaly_fits, invocations >>
    /\ UNCHANGED outsideEngine

\* results = self.pose.process(image_rgb) and, when landmarks come back,
\* the measurement tail.
PrimaryDetect ==
    /\ state = "Initial"
    /\ pose_calls' = pose_calls + 1
    /\ CASE first_pose = "found" ->
              /\ state' = "Succeeded"
              /\ \E pl \in PoseLandmarks : outcome' = MeasureDetected(pl, reference)
         [] first_pose = "none" ->
              /\ state' = "PrimaryAttempted"
              /\ outcome' = outcome
         [] first_pose = "raise" ->
              /\ state' = "Failed"
              /\ outcome' = PoseRaised
    /\ UNCHANGED << entry, inputVars, breed_models, quality_score, enhance_calls,
                    face_calls, answerVars, anomaly_fits, invocations >>
    /\ UNCHANGED outsideEngine

\* Fallback 1 as a loop: an enhanced image on which the pose model finds
\* nothing is enhanced and tried once more.
EnhancedRetryRepeating ==
    /\ state = "PrimaryAttempted"
    /\ enhance_calls' = enhance_calls + 1
    /\ pose_calls' = pose_calls + 1
    /\ CASE retry_pose = "found" ->
              /\ state' = "Succeeded"
              /\ \E pl \in PoseLandmarks : outcome' = MeasureDetected(pl, reference)
         [] retry_pose = "none" ->
              /\ state' = IF enhance_calls = 0 THEN "PrimaryAttempted"
                                               ELSE "EnhancedAttempted"
              /\ outcome' = outcome
         [] retry_pose = "raise" ->
              /\ state' = "Failed"
              /\ outcome' = PoseRaised
    /\ UNCHANGED << entry, inputVars, breed_models, quality_score, face_calls,
                    answerVars, anomaly_fits, invocations >>
    /\ UNCHANGED outsideEngine

\* Fallback 1: _enhance_image_for_detection (it catches its own errors and
\* returns the image unchanged), then self.pose.process on the result.
EnhancedRetry ==
    /\ state = "PrimaryAttempted"
    /\ enhance_calls' = enhance_calls + 1
    /\ pose_calls' = pose_calls + 1
    /\ CASE retry_pose = "found" ->
              /\ state' = "Succeeded"
              /\ \E pl \in PoseLandmarks : outcome' = MeasureDetected(pl, reference)
         [] retry_pose = "none" ->
              /\ state' = "EnhancedAttempted"
              /\ outcome' = outcome
         [] retry_pose = "raise" ->
              /\ state' = "Failed"
              /\ outcome' = PoseRaised
    /\ UNCHANGED << entry, inputVars, breed_models, quality_score, face_calls,
                    answerVars, anomaly_fits, invocations >>
    /\ UNCHANGED outsideEngine

\* Fallback 2: return self._fallback_face_detection(image_rgb, reference).
EnterFallback ==
    /\ state = "EnhancedAttempted"
    /\ state' = "FallbackDetection"
    /\ UNCHANGED << entry, inputVars, breed_models, quality_score, callVars,
                    answerVars, outcome, anomaly_fits, invocations >>
    /\ UNCHANGED outsideEngine

\* A face fallback that starts the chain over when the face model finds
\* nothing, instead of failing.
FaceDetectRestarting ==
    /\ state = "FallbackDetection"
    /\ face_calls' = face_calls + 1
    /\ CASE face_result = "found" ->
              /\ state' = "Estimated"
              /\ \E face \in FaceBoxes :
                    outcome' = MeasureEstimated(face, image.w, image.h, reference)
         [] face_result = "none" ->
              /\ state' = IF face_calls = 0 THEN "Initial" ELSE "Failed"
              /\ outcome' = BasicFailure(ErrNoFeatures)
         [] face_result = "raise" ->
              /\ state' = "Failed"
              /\ outcome' = BasicFailure(ErrFallbackRaised)
    /\ UNCHANGED << entry, inputVars, breed_models, quality_score, pose_calls,
                    enhance_calls, answerVars, anomaly_fits, invocations >>
    /\ UNCHANGED outsideEngine

\* _fallback_face_detection: the face model, then either the estimated
\* keypoints and their measurements, or the failure with the advice.
FaceDetect ==
    /\ state = "FallbackDetection"
    /\ face_calls' = face_calls + 1
    /\ CASE face_result = "found" ->
              /\ state' = "Estimated"
              /\ \E face \in FaceBoxes :
                    outcome' = MeasureEstimated(face, image.w, image.h, reference)
         [] face_result = "none" ->
              /\ state' = "Failed"
              /\ outcome' = BasicFailure(ErrNoFeatures)
         [] face_result = "raise" ->
              /\ state' = "Failed"
              /\ outcome' = BasicFailure(ErrFallbackRaised)
    /\ UNCHANGED << entry, inputVars, breed_models, quality_score, pose_calls,
                    enhance_calls, answerVars, anomaly_fits, invocations >>
    /\ UNCHANGED outsideEngine

\* process_goat_image_advanced lines 108-121: _preprocess_image (no size
\* limit: a large image is scaled down), then the quality gate.
BeginAdvanced ==
    /\ state = "Idle"
    /\ invocations < MaxInvocations
    /\ invocations' = invocations + 1
    /\ entry' = "process_goat_image_advanced"
    /\ reference' \in References
    /\ breed' \in Breeds
    /\ file' \in Files
    /\ ensemble' \in EnsembleAnswers
    /\ first_pose' = "unset"
    /\ retry_pose' = "unset"
    /\ face_result' = "unset"
    /\ pose_calls' = 0
    /\ enhance_calls' = 0
    /\ face_calls' = 0
    /\ IF file' = "undecodable"
       THEN /\ quality_score' = 0
            /\ state' = "Failed"
            /\ fit_answer' = "unset"
            /\ outcome' = [ success |-> FALSE, error |-> ErrPreprocess ]
       ELSE /\ quality_score' \in Qualities
            /\ IF quality_score' < 300
               THEN /\ state' = "Failed"
                    /\ fit_answer' = "unset"
                    /\ outcome' = [ success       |-> FALSE,
                                    error         |-> ErrQuality,
                                    quality_score |-> quality_score' ]
               ELSE /\ state' = "Ensemble"
                    /\ fit_answer' \in OutlierAnswers
                    /\ outcome' = << >>
    /\ UNCHANGED << image, breed_models, anomaly_fits >>
    /\ UNCHANGED outsideEngine

\* process_goat_image_advanced lines 124-160: the ensemble, the extraction,
\* the validation (which fits self.anomaly_detector on the vector when it
\* has more than 5 values) and the confidence.
EnsembleDetect ==
    /\ state = "Ensemble"
    /\ pose_calls' = pose_calls + 2
    /\ face_calls' = face_calls + 1
    /\ \E noise \in Noises :
          /\ outcome' = AdvancedAfterQuality(ensemble, quality_score, reference,
                                             breed, breed_models, image, noise,
                                             fit_answer)
          /\ anomaly_fits' =
                IF outcome'.success /\ FitsDetector(outcome'.measurements)
                THEN anomaly_fits + 1 ELSE anomaly_fits
    /\ state' = IF outcome'.success THEN "Succeeded" ELSE "Failed"
    /\ UNCHANGED << entry, inputVars, breed_models, quality_score, enhance_calls,
                    answerVars, invocations >>
    /\ UNCHANGED outsideEngine

\* The dict is handed to the caller and the locals of the invocation are
\* gone; the instance is ready for the next image.
Return ==
    /\ state \in Terminal
    /\ state' = "Idle"
    /\ entry' = "none"
    /\ outcome' = << >>
    /\ reference' = NoReference
    /\ breed' = ""
    /\ file' = "ok"
    /\ quality_score' = 0
    /\ pose_calls' = 0
    /\ enhance_calls' = 0
    /\ face_calls' = 0
    /\ first_pose' = "unset"
    /\ retry_pose' = "unset"
    /\ face_result' = "unset"
    /\ ensemble' = NoAnswers
    /\ fit_answer' = "unset"
    /\ UNCHANGED << image, breed_models, anomaly_fits, invocations >>
    /\ UNCHANGED outsideEngine

NextEngine ==
    \/ Begin
    \/ PrimaryDetect
    \/ EnhancedRetry
    \/ EnterFallback
    \/ FaceDetect
    \/ BeginAdvanced
    \/ EnsembleDetect
    \/ Return

SpecEngine == InitEngine /\ [][NextEngine]_vars

(***************************************************************************)
(* views.py: one batch session, its processing loop and its retry          *)
(***************************************************************************)
\* Images of one session and retry requests that a run follows.
MaxImages == 2

MaxRetries == 1

\* What an uploaded file is: an image the detectors find a goat on, an
\* image below the quality gate, an image no model finds anything on, or
\* bytes that do not decode.
ImageKinds == { "good", "dark", "blank", "corrupt" }

FormData ==
    { [ use_advanced_ai |-> a, reference_length_cm |-> r ] :
        a \in BOOLEAN, r \in { NoReference, Reference(100) } }

Images == 1 .. total_images

\* processor.process_goat_image_advanced(image_data, reference_length,
\* breed) on a file of the given kind.
BatchEngineResult(kind, ref, breed_, models, img, noise, outlier) ==
    CASE kind = "corrupt" -> [ success |-> FALSE, error |-> ErrPreprocess ]
      [] kind = "dark"    -> [ success |-> FALSE, error |-> ErrQuality,
                               quality_score |-> 200 ]
      [] kind = "blank"   -> AdvancedAfterQuality(
                                 Answers("none", "none", "none", "none"), 1000,
                                 ref, breed_, models, img, noise, outlier)
      [] kind = "good"    -> AdvancedAfterQuality(
                                 Answers("found", "found", "none", "found"), 1000,
                                 ref, breed_, models, img, noise, outlier)

\* upload view lines 1285-1313: the session and one PENDING row per image
\* are created and process_batch_images is started.
InitBatch ==
    /\ CalcIdle
    /\ EngineConstructed
    /\ QueueIdle
    /\ breed_models = {}
    /\ total_images \in 1 .. MaxImages
    /\ goat_breed \in Breeds
    /\ image_kind \in [ 1 .. total_images -> ImageKinds ]
    /\ session_status = "PENDING"
    /\ processed_images = 0
    /\ failed_images = 0
    /\ image_status = [ i \in 1 .. total_images |-> "PENDING" ]
    /\ image_measurement = [ i \in 1 .. total_images |-> None ]
    /\ records = [ i \in 1 .. total_images |-> 0 ]
    /\ form_data \in FormData
    /\ phase = "queued"
    /\ cursor = 0
    /\ processed_count = 0
    /\ failed_count = 0
    /\ detector_inits = 0
    /\ engine_runs = [ i \in 1 .. total_images |-> 0 ]
    /\ retries = 0
    /\ status_at_retry = << >>
    /\ rerun = {}

\* A run that carries the counts of the run before it instead of starting
\* them at zero.
BatchStartKeepingCounts ==
    /\ phase = "queued"
    /\ phase' = "running"
    /\ session_status' = "PROCESSING"
    /\ cursor' = 1
    /\ UNCHANGED << processed_count, failed_count >>
    /\ UNCHANGED << total_images, goat_breed, image_kind, processed_images,
                    failed_images, image_status, image_measurement, records,
                    form_data >>
    /\ UNCHANGED historyVars
    /\ UNCHANGED outsideBatch

\* process_batch_images_sync lines 1388-1398: the session goes to
\* PROCESSING and the loop starts over every image of the session.
BatchStart ==
    /\ phase = "queued"
    /\ phase' = "running"
    /\ session_status' = "PROCESSING"
    /\ cursor' = 1
    /\ processed_count' = 0
    /\ failed_count' = 0
    /\ UNCHANGED << total_images, goat_breed, image_kind, processed_images,
                    failed_images, image_status, image_measurement, records,
                    form_data >>
    /\ UNCHANGED historyVars
    /\ UNCHANGED outsideBatch

\* Lines 1400-1403: batch_image.status = 'PROCESSING'; save().
ImageBegin ==
    /\ phase = "running"
    /\ cursor \in Images
    /\ image_status[cursor] # "PROCESSING"
    /\ image_status' = [ image_status EXCEPT ![cursor] = "PROCESSING" ]
    /\ UNCHANGED << total_images, goat_breed, image_kind, session_status,
                    processed_images, failed_images, image_measurement, records >>
    /\ UNCHANGED loopVars
    /\ UNCHANGED historyVars
    /\ UNCHANGED outsideBatch

\* Lines 1405-1464 for one image.  A processor is constructed for the
\* image.  Advanced: the engine runs, a MorphometricMeasurement row is
\* created whatever result['success'] is, and result['keypoints'], a list,
\* has no items(): the AttributeError fails the image after the row exists.
\* Basic: process_goat_image is not a method of GoatMorphometryProcessor, so
\* the call raises before any engine code runs.
ImageProcess ==
    /\ phase = "running"
    /\ cursor \in Images
    /\ image_status[cursor] = "PROCESSING"
    /\ detector_inits' = detector_inits + 1
    /\ cursor' = cursor + 1
    /\ IF form_data.use_advanced_ai
       THEN \E noise \in Noises, outlier \in OutlierAnswers,
               models \in BreedModelSets, img \in ImageSizes :
               LET result == BatchEngineResult(image_kind[cursor],
                                               form_data.reference_length_cm,
                                               goat_breed, models, img, noise,
                                               outlier)
               IN  /\ engine_runs' = [ engine_runs EXCEPT ![cursor] = @ + 1 ]
                   /\ rerun' = IF retries > 0 THEN rerun \cup { cursor } ELSE rerun
                   /\ records' = [ records EXCEPT ![cursor] = @ + 1 ]
                   /\ IF "keypoints" \in DOMAIN result
                      THEN /\ image_status' = [ image_status EXCEPT ![cursor] = "FAILED" ]
                           /\ failed_count' = failed_count + 1
                           /\ UNCHANGED << image_measurement, processed_count >>
                      ELSE /\ image_status' = [ image_status EXCEPT ![cursor] = "COMPLETED" ]
                           /\ image_measurement' =
                                 [ image_measurement EXCEPT
                                     ![cursor] = Some(<< cursor, records'[cursor] >>) ]
                           /\ processed_count' = processed_count + 1
                           /\ UNCHANGED failed_count
       ELSE /\ image_status' = [ image_status EXCEPT ![cursor] = "FAILED" ]
            /\ failed_count' = failed_count + 1
            /\ UNCHANGED << image_measurement, processed_count, records,
                            engine_runs, rerun >>
    /\ UNCHANGED << total_images, goat_breed, image_kind, session_status,
                    processed_images, failed_images, form_data, phase, retries,
                    status_at_retry >>
    /\ UNCHANGED outsideBatch

\* Lines 1469-1480: the counts of this run and the status they give.
BatchFinish ==
    /\ phase = "running"
    /\ cursor = total_images + 1
    /\ phase' = "done"
    /\ processed_images' = processed_count
    /\ failed_images' = failed_count
    /\ session_status' = IF failed_count = 0 THEN "COMPLETED"
                         ELSE IF processed_count = 0 THEN "FAILED"
                         ELSE "PARTIAL"
    /\ UNCHANGED << total_images, goat_breed, image_kind, image_status,
                    image_measurement, records, form_data, cursor,
                    processed_count, failed_count >>
    /\ UNCHANGED historyVars
    /\ UNCHANGED outsideBatch

\* retry_failed_images, served between two runs: the FAILED rows go back to
\* PENDING, the session to PENDING with failed_images = 0, and
\* process_batch_images is started again with the request's form data.
RetryFailed ==
    /\ phase = "done"
    /\ retries < MaxRetries
    /\ \E i \in Images : image_status[i] = "FAILED"
    /\ retries' = retries + 1
    /\ status_at_retry' = image_status
    /\ rerun' = {}
    /\ image_status' = [ i \in Images |->
                           IF image_status[i] = "FAILED" THEN "PENDING"
                           ELSE image_status[i] ]
    /\ session_status' = "PENDING"
    /\ failed_images' = 0
    /\ form_data' \in FormData
    /\ phase' = "queued"
    /\ UNCHANGED << total_images, goat_breed, image_kind, processed_images,
                    image_measurement, records, cursor, processed_count,
                    failed_count, detector_inits, engine_runs >>
    /\ UNCHANGED outsideBatch

NextBatch ==
    \/ BatchStart
    \/ ImageBegin
    \/ ImageProcess
    \/ BatchFinish
    \/ RetryFailed

SpecBatch == InitBatch /\ [][NextBatch]_vars

(***************************************************************************)
(* deploy/single_instance_cv_processor.py: the /process endpoint, the      *)
(* task queue and the worker threads                                       *)
(***************************************************************************)
\* The service between startup and shutdown: shutdown_event is not set and
\* no None is on the queue.  self.stats is written by no step that reads
\* the queue or the store and is left out.
\* Uploads sent to /process while the service runs.
MaxUploads == 2

\* SingleInstanceCVProcessor(max_workers=3) of startup_event.
max_workers == 3

\* The capacity of processing_queue, a parameter of the constructor.
max_queue_size == 1

\* An upload and the task made for it: submit_task builds the task id from
\* the clock and the temp file's path, one id per upload.
Uploads == 1 .. MaxUploads

Workers == 1 .. max_workers

FinalStatuses == { "completed", "failed" }

\* self.results_store.get(task_id): the status stored, None if there is
\* no entry.
get_result(store, task_id) ==
    IF task_id \in DOMAIN store THEN Some(store[task_id]) ELSE None

\* self.results_store[task_id] = {'status': status, ...}
StoreStatus(store, task_id, status) ==
    [ t \in DOMAIN store \cup { task_id } |->
        IF t = task_id THEN status ELSE store[t] ]

\* startup_event: the processor is constructed, its worker threads wait on
\* the empty queue, and no request has come in yet.
InitQueue ==
    /\ CalcIdle
    /\ EngineConstructed
    /\ breed_models = {}
    /\ BatchIdle
    /\ content_type \in [ Uploads -> { "image", "other" } ]
    /\ request_pc = [ t \in Uploads |-> "waiting" ]
    /\ tmp_file = [ t \in Uploads |-> "none" ]
    /\ processing_queue = << >>
    /\ results_store = << >>
    /\ worker_task = [ w \in Workers |-> None ]
    /\ worker_outcome = [ w \in Workers |-> "unset" ]
    /\ file_at_start = [ t \in Uploads |-> "unread" ]
    /\ recorded = {}

\* process_image lines 578-585: the content type is checked (the
\* HTTPException is caught by the handler's own except and answered as an
\* error), then the upload is copied to a temp file that is kept on close.
SaveUpload(t) ==
    /\ request_pc[t] = "waiting"
    /\ IF content_type[t] = "image"
       THEN /\ tmp_file' = [ tmp_file EXCEPT ![t] = "present" ]
            /\ request_pc' = [ request_pc EXCEPT ![t] = "saved" ]
       ELSE /\ request_pc' = [ request_pc EXCEPT ![t] = "refused" ]
            /\ UNCHANGED tmp_file
    /\ UNCHANGED << content_type, processing_queue, results_store >>
    /\ UNCHANGED workerVars
    /\ UNCHANGED outsideQueue

\* submit_task lines 484-487: put_nowait.  On a full queue it raises, the
\* request is answered with an error and no cleanup is scheduled.
SubmitPut(t) ==
    /\ request_pc[t] = "saved"
    /\ IF Len(processing_queue) < max_queue_size
       THEN /\ processing_queue' = Append(processing_queue, t)
            /\ request_pc' = [ request_pc EXCEPT ![t] = "put" ]
       ELSE /\ request_pc' = [ request_pc EXCEPT ![t] = "refused" ]
            /\ UNCHANGED processing_queue
    /\ UNCHANGED << content_type, tmp_file, results_store >>
    /\ UNCHANGED workerVars
    /\ UNCHANGED outsideQueue

\* submit_task lines 489-496 and process_image lines 599-606: the entry of
\* the task is written as 'queued', the task id is returned, the cleanup is
\* added to the background tasks and the response is sent.
SubmitRecord(t) ==
    /\ request_pc[t] = "put"
    /\ results_store' = StoreStatus(results_store, t, "queued")
    /\ request_pc' = [ request_pc EXCEPT ![t] = "responded" ]
    /\ UNCHANGED << content_type, tmp_file, processing_queue >>
    /\ UNCHANGED workerVars
    /\ UNCHANGED outsideQueue

\* The background task of the response: os.unlink(tmp_path) if the path
\* exists.
Cleanup(t) ==
    /\ request_pc[t] = "responded"
    /\ tmp_file' = [ tmp_file EXCEPT ![t] = "deleted" ]
    /\ request_pc' = [ request_pc EXCEPT ![t] = "cleaned" ]
    /\ UNCHANGED << content_type, processing_queue, results_store >>
    /\ UNCHANGED workerVars
    /\ UNCHANGED outsideQueue

\* _worker_loop lines 90-96: task = self.processing_queue.get(timeout=1.0)
\* by a worker that holds no task.
WorkerGet(w) ==
    /\ worker_task[w] = None
    /\ processing_queue # << >>
    /\ worker_task' = [ worker_task EXCEPT ![w] = Some(Head(processing_queue)) ]
    /\ processing_queue' = Tail(processing_queue)
    /\ UNCHANGED << content_type, request_pc, tmp_file, results_store >>
    /\ UNCHANGED << worker_outcome, file_at_start, recorded >>
    /\ UNCHANGED outsideQueue

\* _worker_loop lines 98-100 with _process_image lines 155-159: cv2.imread
\* of the path.  A missing file reads as None and raises ValueError; a file
\* that is there is processed, and a later stage may still raise.
WorkerProcess(w) ==
    /\ worker_task[w] # None
    /\ worker_outcome[w] = "unset"
    /\ LET t == worker_task[w][1]
       IN  /\ file_at_start' = [ file_at_start EXCEPT ![t] = tmp_file[t] ]
           /\ \E status \in FinalStatuses :
                 /\ tmp_file[t] # "present" => status = "failed"
                 /\ worker_outcome' = [ worker_outcome EXCEPT ![w] = status ]
    /\ UNCHANGED serviceVars
    /\ UNCHANGED << worker_task, recorded >>
    /\ UNCHANGED outsideQueue

\* _worker_loop lines 107-129: the entry of the task is overwritten with
\* 'completed' or 'failed', task_done, and the worker is free again.
WorkerRecord(w) ==
    /\ worker_task[w] # None
    /\ worker_outcome[w] # "unset"
    /\ LET t == worker_task[w][1]
       IN  /\ results_store' = StoreStatus(results_store, t, worker_outcome[w])
           /\ recorded' = recorded \cup { t }
    /\ worker_task' = [ worker_task EXCEPT ![w] = None ]
    /\ worker_outcome' = [ worker_outcome EXCEPT ![w] = "unset" ]
    /\ UNCHANGED << content_type, request_pc, tmp_file, processing_queue >>
    /\ UNCHANGED file_at_start
    /\ UNCHANGED outsideQueue

RequestStep == \E t \in Uploads : SaveUpload(t) \/ SubmitPut(t) \/ SubmitRecord(t)

CleanupStep == \E t \in Uploads : Cleanup(t)

WorkerStep == \E w \in Workers : WorkerGet(w) \/ WorkerProcess(w) \/ WorkerRecord(w)

NextQueue ==
    \/ RequestStep
    \/ CleanupStep
    \/ WorkerStep

SpecQueue == InitQueue /\ [][NextQueue]_vars

\* The threads of the service keep running: a request handler, a
\* background task and a worker that can take a step take one.
SpecQueueLive ==
    /\ SpecQueue
    /\ WF_vars(RequestStep)
    /\ WF_vars(CleanupStep)
    /\ WF_vars(WorkerStep)

(***************************************************************************)
(* Properties of the calculator and the calibrator                         *)
(***************************************************************************)
ShoulderDistanceSq(keypoints) ==
    LET l == keypoints["left_shoulder"]
        r == keypoints["right_shoulder"]
    IN  Sq(l.x - r.x) + Sq(l.y - r.y)

\* C7: after a call of the basic calculator, whatever subset of the
\* landmarks it was given, a measurement with a required landmark absent
\* has no entry in the returned map (it reads as null), and a measurement
\* whose two landmarks are present has its entry, with the value its own
\* two landmarks and the scale determine, whichever other landmarks are
\* missing.  The call always returns: no exception escapes.
MissingLandmarkNullsOnlyItsMeasurements ==
    (calc_which = "basic" /\ calc_calls > 0) =>
        \A m \in BasicCatalog :
            IF RequiredSet(m) \subseteq DOMAIN calc_keypoints
            THEN /\ m \in DOMAIN calc_result
                 /\ calc_result[m] = RoundScaled(PixelSq(m, calc_keypoints), calc_scale)
            ELSE m \notin DOMAIN calc_result

\* A call with the first measurement's landmark missing that still computed
\* a later measurement.
SomeNullSomeComputed ==
    /\ calc_which = "basic"
    /\ calc_calls > 0
    /\ "left_ankle" \notin DOMAIN calc_keypoints
    /\ "hauteur_au_garrot" \notin DOMAIN calc_result
    /\ "largeur_poitrine" \in DOMAIN calc_result
    /\ calc_result["largeur_poitrine"] > 0

ScaleIsReferenceFifthOverDistance ==
    ( /\ calc_calibrated # "no"
      /\ Truthy(calc_reference)
      /\ AnchorNames \subseteq DOMAIN calc_keypoints
      /\ ShoulderDistanceSq(calc_keypoints) > 0 ) =>
        ScaleEq(calc_scale,
                [num |-> calc_reference.v,
                 den2 |-> 25 * ShoulderDistanceSq(calc_keypoints)])

\* The keys by which a result could say that its values are uncalibrated.
CalibrationFlags == { "uncalibrated", "calibrated", "calibration_warning", "warnings" }

CalibrationFellBack ==
    \/ ~Truthy(calc_reference)
    \/ ~(AnchorNames \subseteq DOMAIN calc_keypoints)
    \/ ShoulderDistanceSq(calc_keypoints) = 0

\* C10: when the basic processor calibrates with no reference length, with
\* a shoulder missing or with the shoulders at pixel distance 0, the scale
\* factor is 1.0 and the result it returns is flagged as uncalibrated.
FallbackScaleIsOneAndFlagged ==
    (calc_calibrated = "basic" /\ calc_calls > 0 /\ CalibrationFellBack) =>
        /\ ScaleEq(calc_scale, One)
        /\ calc_outcome.scale_factor = One
        /\ DOMAIN calc_outcome \cap CalibrationFlags # {}

\* C11: whatever reference length the entry points were handed (the upload
\* API passes on any number, negative ones included) and whatever landmarks
\* were found, the scale factor a calibrator returns is strictly greater
\* than 0.
ScaleFactorIsPositive ==
    calc_calibrated # "no" => calc_scale.num > 0

\* C12: every measurement value a calculator returns that is not null is
\* greater than or equal to 0, with or without calibration.
MeasurementsAreNeverNegative ==
    calc_calls > 0 =>
        IF calc_which = "basic"
        THEN \A m \in DOMAIN calc_result : calc_result[m] >= 0
        ELSE \A m \in NonNull(calc_result.values) : calc_result.values[m][1] >= 0

\* C13: the chest width a calculator returns for two shoulders is their
\* Euclidean pixel distance times the scale factor of the call, here
\* rounded to hundredths ((100,200), (300,200) and scale 0.5 give 100.00);
\* the expression is symmetric in the two shoulders.
ChestWidthIsShoulderDistanceTimesScale ==
    (calc_calls > 0 /\ AnchorNames \subseteq DOMAIN calc_keypoints) =>
        IF calc_which = "basic"
        THEN /\ "largeur_poitrine" \in DOMAIN calc_result
             /\ calc_result["largeur_poitrine"] =
                    RoundScaled(ShoulderDistanceSq(calc_keypoints), calc_scale)
        ELSE calc_result.values["largeur_poitrine"] =
                 Some(RoundScaled(ShoulderDistanceSq(calc_keypoints),
                                  calc_result.scale_factor))

\* The value a measurement function returns on the points as extracted,
\* before any noise is added to them.
Unperturbed(m, s) ==
    PlaceholderValue(measurement_functions[m],
                     extract_anatomical_points(Some("pose_high"), image.w, image.h), s)

KeptTrials(m) ==
    BootstrapValues(measurement_functions[m], calc_result.scale_factor,
                    extract_anatomical_points(Some("pose_high"), image.w, image.h),
                    calc_noise)

ChainExhausted ==
    /\ entry \in BasicEntries
    /\ state \in Terminal
    /\ pose_calls = 2
    /\ face_calls = 1
    /\ first_pose = "none"
    /\ retry_pose = "none"

\* C1: when an invocation of the basic processor found no pose landmarks on
\* the original image, none on the enhanced image, and the face model
\* returned a detection, the outcome has success = true, every keypoint it
\* returns is an estimated one with confidence 0.5, its confidence_score is
\* at most 0.5 and it carries a note.
FaceFallbackYieldsEstimatedSuccess ==
    (ChainExhausted /\ face_result = "found") =>
        /\ outcome.success
        /\ DOMAIN outcome.keypoints # {}
        /\ \A n \in DOMAIN outcome.keypoints :
              /\ "confidence" \in DOMAIN outcome.keypoints[n]
              /\ outcome.keypoints[n].confidence = 500
        /\ outcome.confidence_score <= 500
        /\ "note" \in DOMAIN outcome
        /\ outcome.note = NoteEstimated

\* An estimated outcome with a reference length and measurements.
EstimatedOutcomeReached ==
    /\ ChainExhausted
    /\ face_result = "found"
    /\ state = "Estimated"
    /\ Truthy(reference)
    /\ outcome.success
    /\ DOMAIN outcome.measurements # {}

\* The error texts that tell the user what to try.
RemediationTexts == { ErrNoFeatures }

\* No model of the processor found anything on the image, and none raised.
NothingFound ==
    \/ ChainExhausted /\ face_result = "none"
    \/ /\ entry = "process_goat_image_advanced"
       /\ state \in Terminal
       /\ pose_calls = 2
       /\ ensemble = Answers("none", "none", "none", "none")

\* C2: when no detection strategy finds anything in an invocation, the
\* outcome has success = false, its error is the detection failure with
\* remediation text, and its keypoint list and measurement map are empty.
NothingFoundFailsWithAdvice ==
    NothingFound =>
        /\ ~outcome.success
        /\ outcome.error \in RemediationTexts
        /\ "keypoints" \in DOMAIN outcome
        /\ outcome.keypoints = << >>
        /\ "measurements" \in DOMAIN outcome
        /\ outcome.measurements = << >>

\* The primary detector returns landmarks on the image of the invocation.
PrimaryFinds ==
    \/ entry \in BasicEntries /\ first_pose = "found"
    \/ entry = "process_goat_image_advanced" /\ ensemble.high = "found"

ConfidenceInUnitInterval ==
    /\ outcome.confidence_score >= 0
    /\ outcome.confidence_score <= 1000

DetectorsRan ==
    \/ entry \in BasicEntries /\ pose_calls >= 1
    \/ /\ entry = "process_goat_image_advanced"
       /\ pose_calls = 2
       /\ "raise" \notin { ensemble.high, ensemble.broad, ensemble.face, ensemble.seg }

AdvancedSucceeded ==
    /\ entry = "process_goat_image_advanced"
    /\ state \in Terminal
    /\ outcome.success

\* The five factors behind the confidence of the outcome.
OutcomeSignals ==
    confidence_signals(outcome.processing_metadata.ensemble_agreement,
                       outcome.measurements, outcome.quality_score,
                       Max(0, 1000 - 200 * Len(outcome.validation_warnings)))

\* C16: the confidence of a success of the advanced processor is
\* 0.30 * detection confidence + 0.25 * completeness + 0.20 * image quality
\* + 0.15 * consistency + 0.10 * ensemble agreement, clamped to [0, 1]; the
\* five factors are read from five distinct signals, completeness is the
\* number of non-null measurements over the size of the catalog, and
\* consistency is max(0, 1 - 0.2 * number of warnings).
ConfidenceWeighsFiveDistinctSignals ==
    AdvancedSucceeded =>
        /\ outcome.confidence_score = WeightedConfidence(OutcomeSignals)
        /\ OutcomeSignals.landmark_quality.v =
               (1000 * Cardinality(NonNull(outcome.measurements)))
                   \div Cardinality(AdvancedCatalog)
        /\ OutcomeSignals.ensemble_agreement.v =
               outcome.processing_metadata.ensemble_agreement
        /\ Cardinality({ OutcomeSignals[k].source : k \in DOMAIN OutcomeSignals }) = 5

\* The detection strategies the ensemble attempts on every image.
StrategiesAttempted == Cardinality(DOMAIN NoAnswers)

\* C17: the agreement score of a success of the advanced processor lies in
\* [0, 1] and is at most the number of strategies that returned something
\* over the number of strategies attempted.
AgreementWithinFractionOfStrategies ==
    AdvancedSucceeded =>
        /\ outcome.processing_metadata.ensemble_agreement >= 0
        /\ outcome.processing_metadata.ensemble_agreement <= 1000
        /\ outcome.processing_metadata.ensemble_agreement * StrategiesAttempted
               <= 1000 * Len(outcome.processing_metadata.models_used)

\* The advanced processor got landmarks from its ensemble and went on to
\* extraction and validation.
EnsembleSucceeded ==
    /\ entry = "process_goat_image_advanced"
    /\ state \in Terminal
    /\ DetectorsRan
    /\ EnsembleResults(ensemble) # << >>

\* What the extraction computes for the reference and the image of the
\* invocation before validation and correction: the value of each
\* measurement function where it is above 0, with a spread of 0 as every
\* trial gives the same value.
ExtractedValues ==
    [ m \in AdvancedCatalog |->
        LET v == Unperturbed(m, advanced_scale_factor(reference, image.h, image.w))
        IN  IF v > 0 THEN Some(v) ELSE None ]

ExtractedUncertainties ==
    [ m \in AdvancedCatalog |->
        IF ExtractedValues[m] # None THEN Some(0) ELSE None ]

ValidatorWarnings ==
    { "Body length to height ratio seems unusual",
      "Hip width seems disproportionately large compared to chest",
      "Height seems large for Boer breed",
      "Height seems small for Nubian breed",
      "Some measurements detected as statistical outliers" }

\* C18: whatever the validator finds in the measurements (any number of
\* warnings) and whether or not its outlier check raises, the outcome of an
\* invocation that reached it has success = true and carries the extracted
\* measurement values unchanged; the validator only contributes warning
\* strings.
ValidationIsAdvisory ==
    EnsembleSucceeded =>
        /\ outcome.success
        /\ outcome.measurements = ExtractedValues
        /\ \A i \in DOMAIN outcome.validation_warnings :
              outcome.validation_warnings[i] \in ValidatorWarnings

\* A success with a warning on the measurements whose outlier check raised.
WarnedAndRaisedYetSucceeded ==
    /\ EnsembleSucceeded
    /\ outcome.success
    /\ fit_answer = "raise"
    /\ FitsDetector(outcome.measurements)
    /\ outcome.validation_warnings # << >>

InputErrorTexts == { ErrTooLarge, ErrDecode, ErrLoad, ErrPreprocess }

\* C20: an invocation on an image of more than 10 MB or on one that does
\* not decode ends as a failure with an error text about the input, and
\* runs no detector and no enhancement (so no calibration and no
\* measurement either).
InputErrorsFailBeforeDetection ==
    (entry # "none" /\ file \in { "oversize", "undecodable" }) =>
        /\ state = "Failed"
        /\ ~outcome.success
        /\ outcome.error \in InputErrorTexts
        /\ pose_calls = 0
        /\ enhance_calls = 0
        /\ face_calls = 0

OnlyOneEnhancedRetry ==
    entry # "none" =>
        /\ pose_calls <= 2
        /\ enhance_calls <= 1
        /\ face_calls <= 1
        /\ entry \in BasicEntries => pose_calls <= 1 + enhance_calls

\* An invocation that used its retry and its face fallback.
RetryAndFallbackUsed ==
    /\ entry \in BasicEntries
    /\ state \in Terminal
    /\ pose_calls = 2
    /\ enhance_calls = 1
    /\ face_calls = 1

\* The pose model returned landmarks on the original or on the enhanced
\* image of the invocation.
PoseFoundOnEitherAttempt ==
    /\ entry \in BasicEntries
    /\ \/ pose_calls >= 1 /\ first_pose = "found"
       \/ pose_calls = 2 /\ first_pose = "none" /\ retry_pose = "found"

TerminalOutcomeFits ==
    /\ state \in { "Succeeded", "Estimated" } =>
          /\ outcome.success
          /\ "measurements" \in DOMAIN outcome
          /\ entry \in BasicEntries => "scale_factor" \in DOMAIN outcome
    /\ state = "Failed" =>
          /\ ~outcome.success
          /\ "scale_factor" \notin DOMAIN outcome
          /\ "measurements" \in DOMAIN outcome => outcome.measurements = << >>

\* How far along the chain a state is: every step of an invocation moves
\* to a state further along.
ChainRank(st) ==
    CASE st = "Idle"              -> 0
      [] st = "Initial"           -> 1
      [] st = "Ensemble"          -> 1
      [] st = "PrimaryAttempted"  -> 2
      [] st = "EnhancedAttempted" -> 3
      [] st = "FallbackDetection" -> 4
      [] st \in Terminal          -> 5

\* The answer the next step of the chain reads is one it has a branch for,
\* so the invocation is not stuck before a terminal state.
NextStepHasABranch ==
    /\ state = "Initial" => first_pose \in { "found", "none", "raise" }
    /\ state = "PrimaryAttempted" => retry_pose \in { "found", "none", "raise" }
    /\ state = "FallbackDetection" => face_result \in { "found", "none", "raise" }

\* C24: every invocation ends in one of Succeeded, Estimated and Failed,
\* whatever the detectors answer: each step of an invocation moves further
\* along the chain, which has five states at most, and a state that is not
\* terminal always has a branch for the answer it reads.  From a terminal
\* state the only step is the return to the caller, so no detector runs
\* any more; and an outcome with a scale factor and measurements is built
\* in Succeeded and Estimated only.
InvocationsEndInOneTerminalState ==
    [][ /\ IF state \in Terminal
           THEN /\ state' = "Idle"
                /\ pose_calls' <= pose_calls
                /\ enhance_calls' <= enhance_calls
                /\ face_calls' <= face_calls
           ELSE ChainRank(state') > ChainRank(state)
        /\ TerminalOutcomeFits'
        /\ NextStepHasABranch' ]_vars

\* The chain ended in Failed after the face model found nothing.
ChainEndedFailed ==
    /\ state = "Failed"
    /\ entry \in BasicEntries
    /\ face_calls = 1
    /\ face_result = "none"
    /\ ~outcome.success

\* C29: every outcome with success = false, on every failure path of both
\* processors, has the same shape: an error, an empty measurement map, an
\* empty keypoint list and a confidence of 0.
FailuresShareOneShape ==
    (state \in Terminal /\ ~outcome.success) =>
        /\ { "error", "measurements", "keypoints", "confidence_score" }
              \subseteq DOMAIN outcome
        /\ outcome.measurements = << >>
        /\ outcome.keypoints = << >>
        /\ outcome.confidence_score = 0

\* The landmark set an outcome carries is not empty: the keypoints of
\* the basic processor, the keypoint list of the advanced one.
CarriesLandmarks(o) ==
    /\ "keypoints" \in DOMAIN o
    /\ o.keypoints # << >>

\* C30: every outcome with success = true carries a non-empty landmark
\* set; the ensemble succeeds only when one of its strategies produced body
\* landmarks, and a face or a segmentation mask alone never gives a success.
SuccessCarriesLandmarks ==
    (state \in Terminal /\ outcome.success) =>
        /\ CarriesLandmarks(outcome)
        /\ entry = "process_goat_image_advanced" =>
              "found" \in { ensemble.high, ensemble.broad }

\* C5: no field of the processor object is written while it processes
\* images: the anomaly detector the constructor built is never fitted
\* again.
ProcessorFieldsNeverWritten == [][anomaly_fits' = anomaly_fits]_vars

(***************************************************************************)
(* Properties of the batch session                                         *)
(***************************************************************************)
\* C4: after a retry, the engine is run only on images that were FAILED
\* when the retry came in, and every image that was COMPLETED then keeps
\* its status and its single measurement record.
RetryRunsOnlyFailedImages ==
    retries > 0 =>
        \A i \in Images :
            /\ i \in rerun => status_at_retry[i] = "FAILED"
            /\ status_at_retry[i] = "COMPLETED" =>
                  /\ image_status[i] = "COMPLETED"
                  /\ records[i] = 1

\* C6: however many images are processed, the detector models are
\* initialized once, at the construction of the engine, and never again
\* for an image.
DetectorsInitializedOnce == detector_inits <= 1

\* The engine can hand back success = true for the file of image i.
EngineCanSucceedOn(i) ==
    \E ref \in { NoReference, Reference(100) }, noise \in Noises,
       outlier \in OutlierAnswers, models \in BreedModelSets,
       img \in ImageSizes :
        BatchEngineResult(image_kind[i], ref, goat_breed, models, img, noise,
                          outlier).success

\* C25: an image of a batch is COMPLETED only if the engine returned
\* success = true for it, and then its measurement is linked; an image
\* that is FAILED has no measurement record persisted.
CompletedOnlyOnSuccessFailedWithoutRecord ==
    \A i \in Images :
        /\ image_status[i] = "COMPLETED" =>
              /\ EngineCanSucceedOn(i)
              /\ image_measurement[i] # None
        /\ image_status[i] = "FAILED" => records[i] = 0

ImagesWithStatus(st) == { i \in Images : image_status[i] = st }

Accepted(t) == request_pc[t] \in { "put", "responded", "cleaned" }

\* The results store has 'completed' or 'failed' for the task of upload t.
HasFinalStatus(t) ==
    get_result(results_store, t) \in { Some(st) : st \in FinalStatuses }

\* Every accepted task eventually has a final status in the store.
AcceptedTasksGetAFinalStatus ==
    \A t \in Uploads : [](Accepted(t) => <>HasFinalStatus(t))

\* C27: under every interleaving of the request handlers and the worker
\* threads, every task submit_task accepted eventually has the status
\* 'completed' or 'failed' in the results store, and once a worker has
\* recorded one of the two for a task its status never goes back to
\* 'queued'.
AcceptedTasksEndCompletedOrFailed ==
    /\ AcceptedTasksGetAFinalStatus
    /\ [][ \A t \in recorded : results_store'[t] \in FinalStatuses ]_vars

\* C28: the temp file of an upload is still there when a worker starts to
\* process its task, and it is not deleted before the task has reached
\* 'completed' or 'failed'.
TempFileOutlivesTheTask ==
    \A t \in Uploads :
        /\ file_at_start[t] # "deleted"
        /\ tmp_file[t] = "deleted" => HasFinalStatus(t)

=============================================================================
